---- MODULE Spec2Model ----
\* A model of src/app.py: the history trimmer (trim_messages), the response
\* normalizer (extract_text_from_model_response), the model-call adapter
\* (call_model) and the /api/chat handler over the in-memory session store.
\*
\* Seven specifications share the module:
\*   SpecTrim  - trim_messages applied once and twice to bounded inputs;
\*   SpecCall  - one call of call_model against a nondeterministic server;
\*   SpecCallFair - the same call, followed to its return;
\*   SpecChat  - /api/chat, POST /api/sessions and DELETE /api/sessions/<sid>
\*               requests on the session store, handled one at a time;
\*   SpecSessions - the session routes with PATCH /api/sessions/<sid>, one
\*               request at a time;
\*   SpecConc  - the handlers of the session store on concurrent threads;
\*   SpecExtract - extract_text_from_model_response on bounded JSON values.
EXTENDS Integers, Sequences, FiniteSets, TLC

VARIABLES
    \* ---- module globals of src/app.py (lines 98-100)
    MAX_MESSAGES, MAX_TOTAL_CHARS, MAX_MESSAGE_CHARS,
    \* ---- SpecTrim: the argument of trim_messages and its results
    tpc, messages, msgs, msgs2,
    \* ---- SpecCall: the locals of call_model and what an observer sees of it
    cpc, prompt, safe_messages, url, attempt, last_err, r, ret,
    reqs, trace, last_ans,
    \* ---- SpecChat: the session store, the session objects, the uuids
    \* handed out, each worker thread's request locals, and what an observer
    \* counts (chat requests answered per session, requests begun)
    sessions, heap, created, handler, served, nreq,
    \* ---- SpecExtract: the argument of extract_text_from_model_response and
    \* the text it returns
    epc, arg_json, out_text

limitVars == <<MAX_MESSAGES, MAX_TOTAL_CHARS, MAX_MESSAGE_CHARS>>
trimVars  == <<tpc, messages, msgs, msgs2>>
callVars  == <<cpc, prompt, safe_messages, url, attempt, last_err, r, ret,
               reqs, trace, last_ans>>
chatVars  == <<sessions, heap, created, handler, served, nreq>>
extractVars == <<epc, arg_json, out_text>>
vars      == <<limitVars, trimVars, callVars, chatVars, extractVars>>

-----------------------------------------------------------------------------
\* Python values. A value is a record tagged with its Python type; a str holds
\* its characters as a sequence, so len() and slicing are those of the text.

PyNone == [t |-> "NoneType"]
PyStr(s) == [t |-> "str", v |-> s]
PyInt(n) == [t |-> "int", v |-> n]
PyList(s) == [t |-> "list", v |-> s]
PyDict(d) == [t |-> "dict", v |-> d]

\* len(x) raises TypeError for a value that has no length.
HasLen(x) == x.t \in {"str", "list", "dict"}
PyLen(x) == IF x.t = "dict" THEN Cardinality(DOMAIN x.v) ELSE Len(x.v)

\* s[:n], the first n items: what TailSlice would be with the slice reversed
HeadSlice(s, n) == IF n >= Len(s) THEN s ELSE SubSeq(s, 1, n)

\* s[-n:] on a Python sequence: the last n items, all of s when n >= len(s),
\* and all of s when n = 0 (-0 is 0).
TailSlice(s, n) ==
    IF n = 0 \/ n >= Len(s) THEN s ELSE SubSeq(s, Len(s) - n + 1, Len(s))

\* s with its first item removed (list.pop(0)).
Pop0(s) == SubSeq(s, 2, Len(s))

RECURSIVE SumLen(_)
SumLen(s) == IF s = <<>> THEN 0 ELSE PyLen(s[1].content) + SumLen(Pop0(s))

\* d.get(k, default) on a message dict
Get(m, k, default) == IF k \in DOMAIN m THEN m[k] ELSE default

-----------------------------------------------------------------------------
\* trim_messages (src/app.py 102-129)

\* trim_msg without the cut of line 117
trim_msg_uncut(m) ==
    [role |-> Get(m, "role", "user"), content |-> Get(m, "content", PyStr(<<>>))]

trim_msg(m) ==
    LET content == Get(m, "content", PyStr(<<>>))
    IN  [role    |-> Get(m, "role", "user"),
         content |-> IF PyLen(content) > MAX_MESSAGE_CHARS
                     THEN [content EXCEPT !.v = TailSlice(content.v, MAX_MESSAGE_CHARS)]
                     ELSE content]

\* the loop of lines 124-127 as a do-while: pops once before it tests
RECURSIVE drop_oldest_loop(_)
drop_oldest_loop(ms) ==
    IF SumLen(ms) > MAX_TOTAL_CHARS /\ Len(ms) > 1
    THEN drop_oldest_loop(Pop0(ms))
    ELSE ms
drop_oldest_dowhile(ms) == IF Len(ms) > 1 THEN drop_oldest_loop(Pop0(ms)) ELSE ms

RECURSIVE drop_oldest(_)
drop_oldest(ms) ==
    IF SumLen(ms) > MAX_TOTAL_CHARS /\ Len(ms) > 1
    THEN drop_oldest(Pop0(ms))
    ELSE ms

\* TypeError out of len(content), line 115, for a content without a length
trim_raises(ms) ==
    \E i \in DOMAIN TailSlice(ms, MAX_MESSAGES) :
        ~HasLen(Get(TailSlice(ms, MAX_MESSAGES)[i], "content", PyStr(<<>>)))

trim_messages(ms) ==
    IF ms = <<>>
    THEN ms
    ELSE LET last == TailSlice(ms, MAX_MESSAGES)
         IN  drop_oldest([i \in DOMAIN last |-> trim_msg(last[i])])

-----------------------------------------------------------------------------
\* extract_text_from_model_response (src/app.py 57-92). Each block of the try
\* body either returns a value, finds no match, or raises; the one except
\* clause of line 88 encloses the whole body.

Ret(x) == [k |-> "return", val |-> x]
NoMatch == [k |-> "nomatch"]
Raise == [k |-> "raise"]

\* str(x): x itself for a str, its printed form otherwise
str(x) == IF x.t = "str" THEN x ELSE [t |-> "str", v |-> <<"repr">>, of |-> x]

IsDict(x) == x.t = "dict"
IsStr(x) == x.t = "str"
IsList(x) == x.t = "list"
Has(d, key) == key \in DOMAIN d.v

\* lines 64-74: the choices block
ChoicesStep(resp_json) ==
    IF Has(resp_json, "choices") /\ IsList(resp_json.v.choices)
          /\ Len(resp_json.v.choices.v) > 0
    THEN LET choice == resp_json.v.choices.v[1]
         IN  IF ~IsDict(choice)
             THEN Raise     \* choice.get: AttributeError (or TypeError)
             ELSE IF Has(choice, "message") /\ IsDict(choice.v.message)
                        /\ Has(choice.v.message, "content")
             THEN Ret(choice.v.message.v.content)
             ELSE IF Has(choice, "text") /\ IsStr(choice.v.text)
             THEN Ret(choice.v.text)
             ELSE IF Has(choice, "delta") /\ IsDict(choice.v.delta)
                        /\ Has(choice.v.delta, "content")
             THEN Ret(choice.v.delta.v.content)
             ELSE NoMatch
    ELSE NoMatch

\* lines 77-79: the first top-level str among the four keys
TopKeys == <<"text", "result", "output_text", "response">>
TopStep(resp_json) ==
    LET hits == {i \in DOMAIN TopKeys :
                    Has(resp_json, TopKeys[i]) /\ IsStr(resp_json.v[TopKeys[i]])}
    IN  IF hits = {} THEN NoMatch
        ELSE Ret(resp_json.v[TopKeys[CHOOSE i \in hits : \A j \in hits : i <= j]])

\* `k in d0` of line 85 for a d0 that is no dict: a str is searched for k as a
\* substring, a list for k as an item; when k is found d0[k] raises, and for a
\* value that is no container the test itself raises.
KeyChars(key) == IF key = "text" THEN <<"t", "e", "x", "t">>
                 ELSE <<"c", "o", "n", "t", "e", "n", "t">>
Contains(hay, needle) ==
    \E i \in 0..(Len(hay) - Len(needle)) :
        \A j \in 1..Len(needle) : hay[i + j] = needle[j]
InNonDict(key, d0) ==
    IF IsStr(d0) THEN Contains(d0.v, KeyChars(key))
    ELSE \E i \in DOMAIN d0.v : IsStr(d0.v[i]) /\ d0.v[i].v = KeyChars(key)

\* lines 82-86: the data block
DataKey(d0, key, rest) ==
    IF IsDict(d0)
    THEN IF Has(d0, key) /\ IsStr(d0.v[key]) THEN Ret(d0.v[key]) ELSE rest
    ELSE IF ~(IsStr(d0) \/ IsList(d0)) THEN Raise
    ELSE IF InNonDict(key, d0) THEN Raise ELSE rest
DataStep(resp_json) ==
    IF Has(resp_json, "data") /\ IsList(resp_json.v.data) /\ Len(resp_json.v.data.v) > 0
    THEN LET d0 == resp_json.v.data.v[1]
         IN  DataKey(d0, "text", DataKey(d0, "content", NoMatch))
    ELSE NoMatch

\* the text of the returned (text, raw) pair
extract_text_from_model_response(resp_json) ==
    IF ~IsDict(resp_json) THEN str(resp_json)
    ELSE LET c == ChoicesStep(resp_json)
             p == TopStep(resp_json)
             d == DataStep(resp_json)
         IN  IF c.k = "return" THEN c.val
             ELSE IF c.k = "raise" THEN str(resp_json)
             ELSE IF p.k = "return" THEN p.val
             ELSE IF d.k = "return" THEN d.val
             ELSE str(resp_json)

-----------------------------------------------------------------------------
\* Bounds and input sets

MaxMsgs == 4            \* longest message list given to trim_messages
MaxCountLimit == 3      \* MAX_MESSAGES ranges over 1..MaxCountLimit
MaxCharLimit == 2       \* MAX_MESSAGE_CHARS ranges over 1..MaxCharLimit
MaxTotalLimit == 3      \* MAX_TOTAL_CHARS ranges over 0..MaxTotalLimit

Roles == {"user", "assistant"}
Texts == {<<>>, <<"a", "b">>, <<"b", "a", "a">>}

\* the {role, content} dicts that lines 155 and 305 build before trimming
Messages == {[role |-> ro, content |-> PyStr(tx)] : ro \in Roles, tx \in Texts}

BoundedSeq(S, n) == UNION {[1..k -> S] : k \in 0..n}

\* The limits are positive, as the configured ones (24, 14000, 3000) are.
LimitsInit ==
    /\ MAX_MESSAGES \in 1..MaxCountLimit
    /\ MAX_MESSAGE_CHARS \in 1..MaxCharLimit
    /\ MAX_TOTAL_CHARS \in 0..MaxTotalLimit

\* What the variables of a specification hold while its part of the program
\* is not running.
TrimIdle == tpc = "off" /\ messages = <<>> /\ msgs = <<>> /\ msgs2 = <<>>
CallIdle ==
    /\ cpc = "off" /\ prompt = PyNone /\ safe_messages = PyNone
    /\ url = 0 /\ attempt = 0 /\ last_err = PyNone /\ r = PyNone /\ ret = PyNone
    /\ reqs = 0 /\ trace = <<>> /\ last_ans = PyNone
ChatIdle ==
    /\ sessions = {} /\ heap = <<>> /\ created = 0 /\ handler = <<>>
    /\ served = <<>> /\ nreq = 0
ExtractIdle == epc = "off" /\ arg_json = PyNone /\ out_text = PyNone

-----------------------------------------------------------------------------
\* SpecTrim: trim_messages on every bounded message list, then on its own
\* result.

TrimInit ==
    /\ LimitsInit
    /\ tpc = "input"
    /\ messages \in BoundedSeq(Messages, MaxMsgs)
    /\ msgs = <<>> /\ msgs2 = <<>>
    /\ CallIdle /\ ChatIdle /\ ExtractIdle

Trim ==
    /\ tpc = "input"
    /\ msgs' = trim_messages(messages)
    /\ tpc' = "trimmed"
    /\ UNCHANGED <<messages, msgs2, limitVars, callVars, chatVars, extractVars>>

Retrim ==
    /\ tpc = "trimmed"
    /\ msgs2' = trim_messages(msgs)
    /\ tpc' = "retrimmed"
    /\ UNCHANGED <<messages, msgs, limitVars, callVars, chatVars, extractVars>>

TrimNext == Trim \/ Retrim

SpecTrim == TrimInit /\ [][TrimNext]_vars

Min(a, b) == IF a < b THEN a ELSE b

\* C6: the trimmer's output has at most max_count messages, each content has
\* at most max_msg_chars characters, and the contents total at most
\* max_total_chars unless the output is a single message.
C6_TrimBounded ==
    tpc \in {"trimmed", "retrimmed"} =>
        /\ Len(msgs) <= MAX_MESSAGES
        /\ \A i \in DOMAIN msgs : Len(msgs[i].content.v) <= MAX_MESSAGE_CHARS
        /\ SumLen(msgs) <= MAX_TOTAL_CHARS \/ Len(msgs) = 1

\* an input over all three limits, cut by each of them, more than one kept
C6_Witness ==
    /\ tpc = "trimmed"
    /\ Len(messages) > MAX_MESSAGES
    /\ \E i \in DOMAIN messages :
          /\ i > Len(messages) - Len(msgs)
          /\ Len(messages[i].content.v) > MAX_MESSAGE_CHARS
    /\ Len(msgs) < MAX_MESSAGES
    /\ Len(msgs) > 1

\* C7: the trimmer is idempotent: trimming its own output with the same
\* limits gives the same list (same messages, order, roles and contents).
C7_TrimIdempotent == tpc = "retrimmed" => msgs2 = msgs

\* the first trim changed the input, and the second one ran
C7_Witness ==
    /\ tpc = "retrimmed"
    /\ msgs # messages
    /\ Len(msgs) > 1
    /\ \E i \in DOMAIN msgs :
          msgs[i].content # messages[Len(messages) - Len(msgs) + i].content

\* The trailing c characters of s, written out index by index.
Trailing(s, c) == [j \in 1..c |-> s[Len(s) - c + j]]

\* length of message i's content once cut to the per-message cap
CutLen(i) == Min(Len(messages[i].content.v), MAX_MESSAGE_CHARS)

RECURSIVE SuffixTotal(_)
SuffixTotal(k) ==
    IF k = 0 THEN 0 ELSE CutLen(Len(messages) - k + 1) + SuffixTotal(k - 1)

\* the k of C8: the largest k <= max_count (and <= the input's length) whose
\* cut contents total at most max_total_chars, or 1 when there is none
Fitting == {k \in 1..Min(Len(messages), MAX_MESSAGES) : SuffixTotal(k) <= MAX_TOTAL_CHARS}
KeptCount == IF Fitting = {} THEN 1 ELSE CHOOSE k \in Fitting : \A j \in Fitting : j <= k

\* C8: for a non-empty input the output is the last k messages of the input in
\* their order, each content replaced by its trailing min(length,
\* max_msg_chars) characters, k as above; so it is never empty.
C8_TrimKeepsNewest ==
    (tpc \in {"trimmed", "retrimmed"} /\ messages # <<>>) =>
        /\ Len(msgs) = KeptCount
        /\ Len(msgs) >= 1
        /\ \A i \in 1..Len(msgs) :
              LET m == messages[Len(messages) - Len(msgs) + i]
              IN  /\ msgs[i].role = m.role
                  /\ msgs[i].content = PyStr(Trailing(m.content.v, CutLen(Len(messages) - Len(msgs) + i)))

\* a message was dropped by the total cap while a cut newer one was kept
C8_Witness ==
    /\ tpc = "trimmed"
    /\ Fitting # {}
    /\ KeptCount < Min(Len(messages), MAX_MESSAGES)
    /\ KeptCount > 1
    /\ Len(messages[Len(messages)].content.v) > MAX_MESSAGE_CHARS

\* C8, the single-message case: no k fits, and the newest message is kept
C8_WitnessNoneFits ==
    /\ tpc = "trimmed"
    /\ Fitting = {}
    /\ Len(messages) > 1
    /\ Len(msgs) = 1

-----------------------------------------------------------------------------
\* call_model (src/app.py 135-230)

MODEL_URLS ==
    <<"http://127.0.0.1:5000/v1/chat/completions",
      "http://127.0.0.1:5000/v1/completions",
      "http://127.0.0.1:5000/predict",
      "http://127.0.0.1:5000/v1/generate",
      "http://127.0.0.1:5000/v1/complete">>

\* range(3), line 166
ATTEMPTS == 3

\* the tuple of line 197 with one status left out
RECOVERABLE_short == {408, 429, 500, 502, 503, 504}

\* the tuple of line 197
RECOVERABLE == {408, 409, 429, 500, 502, 503, 504}

\* What the server may answer. A body is the raw text of the response; json_of
\* is r.json() on it, which raises for a body that is no JSON document.
Statuses == {200, 404} \cup {408, 409, 429, 500, 502, 503, 504} \cup {400, 401, 403}
BodyChat == "{\"choices\": [{\"message\": {\"content\": \"hi\"}}]}"
BodyPlain == "plain text"
Bodies == {BodyChat, BodyPlain}
IsJson(body) == body = BodyChat
json_of(body) ==
    PyDict([choices |-> PyList(<<PyDict([message |->
                PyDict([content |-> PyStr(<<"h", "i">>)])])>>)])

\* requests.RequestException texts
NetErrors == {"connection refused", "read timed out"}

\* The outcomes of one requests.post
Answers ==
    {[exc |-> FALSE, status_code |-> 200, text |-> PyStr(<<b>>)] : b \in Bodies}
    \cup {[exc |-> FALSE, status_code |-> st, text |-> PyStr(<<BodyPlain>>)] :
              st \in Statuses \ {200}}
    \cup {[exc |-> TRUE, err |-> PyStr(<<e>>)] : e \in NetErrors}

\* SuccessText without the normalizer: the raw body whatever it is
SuccessText_raw(ans) == ans.text

\* lines 181-188 and 206-211: the text of a 200 response
SuccessText(ans) ==
    IF IsJson(ans.text.v[1])
    THEN extract_text_from_model_response(json_of(ans.text.v[1]))
    ELSE ans.text

\* the diagnostics of lines 192, 198/218, 215 and 221
Err404(u) == PyStr(<<u, " returned 404 Not Found">>)
ErrStatus(u, rr) == PyStr(<<u, " returned ", ToString(rr.status_code), ": ">> \o rr.text.v)
ErrInputs404(u) == PyStr(<<u, " (inputs) returned 404">>)

\* the diagnostic after a fallback answered neither 200 nor 404, taken from the
\* fallback's response
OtherDiag_fallback(u, chat, inputs) == ErrStatus(u, inputs)
\* line 218: the diagnostic after a fallback answered neither 200 nor 404 names
\* r, the chat-shape response, not r2
OtherDiag(u, chat, inputs) == ErrStatus(u, chat)

\* line 230
FailPrefix == "Failed to contact model. Last error: "
Format(x) == IF x.t = "NoneType" THEN <<"None">> ELSE x.v
FailureText(err) == PyStr(<<FailPrefix>> \o Format(err))

\* a backoff that does not grow with the attempt
Backoff_flat(a) == 6
ErrorBackoff_flat(a) == 5

\* time.sleep arguments, in tenths of a second (lines 199, 223)
Backoff(a) == 6 * (a + 1)
ErrorBackoff(a) == 5 * (a + 1)

\* lines 151-160
SafeMessages(pr, ms) ==
    LET conv == [i \in DOMAIN ms |->
                    [role |-> Get(ms[i], "role", "user"),
                     content |-> str(Get(ms[i], "content", PyStr(<<>>)))]]
        trimmed == IF ms # <<>> THEN trim_messages(conv) ELSE <<>>
    IN  IF trimmed = <<>> THEN <<[role |-> "user", content |-> pr]>> ELSE trimmed

\* What an observer of the HTTP traffic calls an answer.
AnswerClass(ans) ==
    IF ans.exc THEN "error"
    ELSE IF ans.status_code = 200 THEN "200"
    ELSE IF ans.status_code = 404 THEN "404"
    ELSE IF ans.status_code \in {408, 409, 429, 500, 502, 503, 504} THEN "retryable"
    ELSE "other"

\* trace holds the requests sent to the URL contacted last, each with the class
\* of its answer and the sleep that followed it (0: none); last_ans holds the
\* answers of the latest attempt in full (to its chat-shape request and, once
\* sent, to its 'inputs' request); reqs counts the requests of the whole call.
Event(shape, ans, sleep) ==
    [url |-> url, attempt |-> attempt, shape |-> shape,
     answer |-> AnswerClass(ans), sleep |-> sleep]
Observe(shape, ans, sleep) ==
    /\ reqs' = reqs + 1
    /\ last_ans' = IF shape = "chat"
                   THEN [chat |-> ans, inputs |-> PyNone]
                   ELSE [chat |-> last_ans.chat, inputs |-> ans]
    /\ trace' = IF trace # <<>> /\ trace[1].url # url
                THEN <<Event(shape, ans, sleep)>>
                ELSE Append(trace, Event(shape, ans, sleep))

\* Goto recording a diagnostic only while none is held
Goto_keepsFirst(u, a, err) ==
    LET e == IF last_err.t = "NoneType" THEN err ELSE last_err
    IN  /\ last_err' = e
        /\ r' = PyNone
        /\ IF a < ATTEMPTS
           THEN cpc' = "chat" /\ url' = u /\ attempt' = a /\ ret' = ret
           ELSE IF u < Len(MODEL_URLS)
           THEN cpc' = "chat" /\ url' = u + 1 /\ attempt' = 0 /\ ret' = ret
           ELSE /\ cpc' = "returned" /\ url' = u /\ attempt' = attempt
                /\ ret' = [ok |-> FALSE, text |-> PyStr(<<"Failed to contact model. Last error: ">> \o e.v)]

\* Goto with one attempt more than range(3) gives
Goto_oneMore(u, a, err) ==
    /\ last_err' = err
    /\ r' = PyNone
    /\ IF a <= ATTEMPTS
       THEN cpc' = "chat" /\ url' = u /\ attempt' = a /\ ret' = ret
       ELSE IF u < Len(MODEL_URLS)
       THEN cpc' = "chat" /\ url' = u + 1 /\ attempt' = 0 /\ ret' = ret
       ELSE /\ cpc' = "returned" /\ url' = u /\ attempt' = attempt
            /\ ret' = [ok |-> FALSE, text |-> FailureText(err)]

\* Control after the body of the attempt loop was left with attempt a done at
\* URL u and diagnostic err: the next attempt, the next URL, or line 230.
Goto(u, a, err) ==
    /\ last_err' = err
    /\ r' = PyNone
    /\ IF a < ATTEMPTS
       THEN cpc' = "chat" /\ url' = u /\ attempt' = a /\ ret' = ret
       ELSE IF u < Len(MODEL_URLS)
       THEN cpc' = "chat" /\ url' = u + 1 /\ attempt' = 0 /\ ret' = ret
       ELSE /\ cpc' = "returned" /\ url' = u /\ attempt' = attempt
            /\ ret' = [ok |-> FALSE, text |-> FailureText(err)]
\* continue (lines 200, 224) and falling off the end of the body (line 218)
Continue(err) == Goto(url, attempt + 1, err)
\* break taken as continue
Break_asContinue(err) == Goto(url, attempt + 1, err)
\* break (lines 194, 216)
Break(err) == Goto(url, ATTEMPTS, err)
\* return True, text (lines 185, 188, 209, 211)
Return(text) ==
    /\ cpc' = "returned"
    /\ ret' = [ok |-> TRUE, text |-> text]
    /\ r' = PyNone
    /\ UNCHANGED <<url, attempt, last_err>>

\* lines 149-162
CallStart ==
    /\ cpc = "start"
    /\ last_err' = PyNone
    /\ safe_messages' = SafeMessages(prompt, messages)
    /\ cpc' = "chat" /\ url' = 1 /\ attempt' = 0
    /\ UNCHANGED <<prompt, r, ret, reqs, trace, last_ans, limitVars, trimVars, chatVars, extractVars>>

\* lines 167-200 and 220-224: the chat-shape request of one attempt
ChatAttempt ==
    /\ cpc = "chat"
    /\ \E ans \in Answers :
        LET u == MODEL_URLS[url]
        IN  IF ans.exc
            THEN Observe("chat", ans, ErrorBackoff(attempt)) /\ Continue(ans.err)
            ELSE IF ans.status_code = 200
            THEN Observe("chat", ans, 0) /\ Return(SuccessText(ans))
            ELSE IF ans.status_code = 404
            THEN Observe("chat", ans, 0) /\ Break(Err404(u))
            ELSE IF ans.status_code \in RECOVERABLE
            THEN Observe("chat", ans, Backoff(attempt)) /\ Continue(ErrStatus(u, ans))
            ELSE /\ Observe("chat", ans, 0)
                 /\ r' = ans
                 /\ cpc' = "inputs"
                 /\ UNCHANGED <<url, attempt, last_err, ret>>
    /\ UNCHANGED <<prompt, safe_messages, limitVars, trimVars, chatVars, extractVars>>

\* lines 203-218 and 220-224: the completion-shape ('inputs') request
InputsAttempt ==
    /\ cpc = "inputs"
    /\ \E ans \in Answers :
        LET u == MODEL_URLS[url]
        IN  IF ans.exc
            THEN Observe("inputs", ans, ErrorBackoff(attempt)) /\ Continue(ans.err)
            ELSE IF ans.status_code = 200
            THEN Observe("inputs", ans, 0) /\ Return(SuccessText(ans))
            ELSE IF ans.status_code = 404
            THEN Observe("inputs", ans, 0) /\ Break(ErrInputs404(u))
            ELSE Observe("inputs", ans, 0) /\ Continue(OtherDiag(u, r, ans))
    /\ UNCHANGED <<prompt, safe_messages, limitVars, trimVars, chatVars, extractVars>>

\* the arguments of the calls at lines 308 and 385
CallPrompts == {PyStr(<<"H", "e", "l", "l", "o">>)}
CallMessages ==
    {<<>>,
     <<[role |-> "user", content |-> PyStr(<<"a", "b">>)],
       [role |-> "assistant", content |-> PyStr(<<"b", "a", "a">>)],
       [role |-> "user", content |-> PyStr(<<"b", "a", "a">>)]>>}

CallInit ==
    /\ MAX_MESSAGES = MaxCountLimit
    /\ MAX_MESSAGE_CHARS = MaxCharLimit
    /\ MAX_TOTAL_CHARS = MaxTotalLimit
    /\ tpc = "off" /\ msgs = <<>> /\ msgs2 = <<>>
    /\ messages \in CallMessages
    /\ prompt \in CallPrompts
    /\ cpc = "start" /\ safe_messages = PyNone
    /\ url = 0 /\ attempt = 0 /\ last_err = PyNone /\ r = PyNone /\ ret = PyNone
    /\ reqs = 0 /\ trace = <<>> /\ last_ans = PyNone
    /\ ChatIdle /\ ExtractIdle

CallNext == CallStart \/ ChatAttempt \/ InputsAttempt

SpecCall == CallInit /\ [][CallNext]_vars

\* The call runs on: every requests.post returns or raises (timeout=60 at
\* lines 176 and 204) and every sleep ends.
\* The call of line 385 (no messages) is the one followed to its end.
CallInitFair == CallInit /\ messages = <<>>
SpecCallFair == CallInitFair /\ [][CallNext]_vars /\ WF_vars(CallNext)

-----------------------------------------------------------------------------
\* Claims about call_model

LastEv == trace[Len(trace)]
LastAnswer == IF LastEv.shape = "chat" THEN last_ans.chat ELSE last_ans.inputs
NumUrls == Len(MODEL_URLS)

\* the call failed for good
Failed == cpc = "returned" /\ ~ret.ok
\* the adapter is done with the URL that trace is about
LeftUrl ==
    /\ trace # <<>>
    /\ \/ Failed /\ trace[1].url = NumUrls
       \/ cpc = "chat" /\ attempt = 0 /\ url = trace[1].url + 1

\* the text a 200 answer stands for: the normalizer's result for a JSON body,
\* the raw body otherwise
TextOf(ans) ==
    IF ans.text.v[1] = BodyChat
    THEN extract_text_from_model_response(json_of(ans.text.v[1]))
    ELSE PyStr(<<ans.text.v[1]>>)

\* C1: as soon as a POST (either shape) returns 200 the call returns success
\* with that response's text and sends no further request; when the first URL
\* answers the first chat-shape request with 200, one request is sent in all.
C1_FirstSuccessEndsCall ==
    [][ /\ (reqs' # reqs /\ trace'[Len(trace')].answer = "200") =>
              /\ cpc' = "returned"
              /\ ret' = [ok |-> TRUE,
                         text |-> TextOf(IF trace'[Len(trace')].shape = "chat"
                                         THEN last_ans'.chat ELSE last_ans'.inputs)]
        /\ cpc = "returned" => (reqs' = reqs /\ ret' = ret /\ cpc' = cpc)
        /\ (cpc' = "returned" /\ trace'[1].url = 1 /\ trace'[1].attempt = 0
               /\ trace'[1].answer = "200") => reqs' = 1
      ]_vars

\* success by the fallback shape at a later URL, after failed requests
C1_Witness ==
    /\ cpc = "returned" /\ ret.ok
    /\ LastEv.shape = "inputs" /\ LastEv.url = 3 /\ LastEv.attempt = 1
    /\ ret.text = PyStr(<<"h", "i">>)

\* success at the very first request
C1_WitnessFirst == cpc = "returned" /\ ret.ok /\ reqs = 1 /\ ret.text = PyStr(<<BodyPlain>>)

\* the diagnostic of the latest attempt, as the specification words it
DiagOfLast ==
    LET u == MODEL_URLS[LastEv.url]
    IN  IF LastAnswer.exc THEN LastAnswer.err
        ELSE IF LastAnswer.status_code = 404
        THEN IF LastEv.shape = "chat"
             THEN PyStr(<<u, " returned 404 Not Found">>)
             ELSE PyStr(<<u, " (inputs) returned 404">>)
        ELSE PyStr(<<u, " returned ", ToString(last_ans.chat.status_code), ": ",
                     last_ans.chat.text.v[1]>>)

\* no attempt is left at the URL of trace tr
Exhausted(tr) ==
    /\ tr # <<>>
    /\ \A i \in DOMAIN tr : tr[i].answer # "200"
    /\ \/ tr[Len(tr)].answer = "404"
       \/ /\ tr[Len(tr)].attempt = ATTEMPTS - 1
          /\ ~(tr[Len(tr)].shape = "chat" /\ tr[Len(tr)].answer = "other")

\* C2: call_model returns failure exactly when every candidate URL was
\* exhausted without a 200, and the failure text is the fixed prefix followed
\* by the diagnostic recorded last, by the final attempt at the last URL.
C2_FailureIffExhausted ==
    /\ [](cpc = "returned" =>
            /\ ~ret.ok <=> LastEv.answer # "200"
            /\ ~ret.ok =>
                /\ LastEv.url = NumUrls
                /\ Exhausted(trace)
                /\ ret.text = PyStr(<<"Failed to contact model. Last error: ">> \o DiagOfLast.v))
    /\ [][ (url # 0 /\ url' # url) =>
              (url' = url + 1 /\ Exhausted(trace') /\ trace'[1].url = url) ]_vars
    /\ [](Exhausted(trace) => (Failed \/ LeftUrl))

\* failure after an earlier, different diagnostic at the last URL
C2_Witness ==
    /\ Failed
    /\ Len(trace) = 4
    /\ trace[1].answer = "retryable"
    /\ trace[2].answer = "error"
    /\ LastEv.shape = "inputs" /\ LastEv.answer = "other"
    /\ last_ans.chat.status_code = 403

\* events i, i+1, i+2 of trace are chat-shape requests answered retryable
RetryRun(i) ==
    /\ i + 2 <= Len(trace)
    /\ \A j \in i..(i + 2) : trace[j].shape = "chat" /\ trace[j].answer = "retryable"

C4_NotFoundAdvancesAtOnce ==
    \A i \in DOMAIN trace :
        trace[i].answer = "404" =>
            /\ i = Len(trace)
            /\ trace[i].sleep = 0
            /\ LeftUrl

\* a 404 to the fallback of the first attempt: two attempts are skipped
C4_Witness ==
    /\ Len(trace) = 2
    /\ trace[2].shape = "inputs" /\ trace[2].answer = "404" /\ trace[2].attempt = 0
    /\ url = trace[1].url + 1 /\ cpc = "chat"

\* a 404 to the chat-shape request of the second attempt
C4_WitnessChat ==
    /\ Len(trace) = 2
    /\ trace[2].shape = "chat" /\ trace[2].answer = "404" /\ trace[2].attempt = 1
    /\ trace[1].sleep > 0
    /\ url = trace[1].url + 1 /\ cpc = "chat"

\* C5: every attempt starts with the chat-shape request; a completion-shape
\* request follows only a chat-shape answer of the same attempt at the same
\* URL whose status is none of 200, 404 and the retryable ones; and each such
\* answer is followed by exactly one completion-shape request to that URL.
C5_ChatFirstFallbackOnOther ==
    /\ \A i \in DOMAIN trace :
          /\ (i = 1 \/ trace[i - 1].attempt # trace[i].attempt) => trace[i].shape = "chat"
          /\ trace[i].shape = "inputs" =>
                /\ i > 1
                /\ trace[i - 1].shape = "chat" /\ trace[i - 1].answer = "other"
                /\ trace[i - 1].attempt = trace[i].attempt
                /\ trace[i - 1].url = trace[i].url
          /\ (trace[i].shape = "chat" /\ trace[i].answer = "other") =>
                IF i = Len(trace)
                THEN cpc = "inputs" /\ url = trace[i].url /\ attempt = trace[i].attempt
                ELSE /\ trace[i + 1].shape = "inputs"
                     /\ (i + 2 <= Len(trace) => trace[i + 2].shape = "chat")
    /\ cpc = "inputs" =>
          (trace # <<>> /\ LastEv.shape = "chat" /\ LastEv.answer = "other")
    /\ cpc = "chat" =>
          (trace = <<>> \/ ~(LastEv.shape = "chat" /\ LastEv.answer = "other"))

\* 401 twice at one URL, each followed by one fallback request
C5_Witness ==
    /\ Len(trace) = 4
    /\ trace[1].answer = "other" /\ trace[2].shape = "inputs"
    /\ trace[3].shape = "chat" /\ trace[3].answer = "other" /\ trace[4].shape = "inputs"
    /\ last_ans.chat.status_code = 401

\* the adapter goes on with the attempt after event i of trace, at the same
\* URL, or has left the URL when that was the third attempt
NextAttemptFollows(i) ==
    IF i < Len(trace)
    THEN /\ trace[i + 1].shape = "chat"
         /\ trace[i + 1].url = trace[i].url
         /\ trace[i + 1].attempt = trace[i].attempt + 1
    ELSE IF trace[i].attempt < 2
    THEN cpc = "chat" /\ url = trace[i].url /\ attempt = trace[i].attempt + 1
    ELSE LeftUrl

\* event i: a fallback request answered with a status that is neither 200 nor 404
FallbackRefused(i) ==
    trace[i].shape = "inputs" /\ trace[i].answer \in {"retryable", "other"}

\* C16: when the fallback request returns neither 200 nor 404 the adapter
\* records the status of the chat-shape response of that attempt, does not
\* sleep and goes on with the next attempt at the same URL; a URL that keeps
\* answering so gets exactly 3 chat-shape and 3 completion-shape requests, no
\* sleep between them, before the adapter advances.
C16_FallbackRefusedNoBackoff ==
    /\ \A i \in DOMAIN trace :
          FallbackRefused(i) =>
              /\ trace[i].sleep = 0
              /\ NextAttemptFollows(i)
              /\ i = Len(trace) =>
                    last_err = PyStr(<<MODEL_URLS[trace[i].url], " returned ",
                                       ToString(last_ans.chat.status_code), ": ",
                                       last_ans.chat.text.v[1]>>)
    /\ (LeftUrl /\ \A i \in DOMAIN trace : trace[i].shape = "inputs" => FallbackRefused(i))
          => \/ \E i \in DOMAIN trace : trace[i].shape = "chat" /\ trace[i].answer # "other"
             \/ /\ Len(trace) = 6
                /\ \A i \in DOMAIN trace :
                      /\ trace[i].shape = (IF i % 2 = 1 THEN "chat" ELSE "inputs")
                      /\ trace[i].attempt = (i - 1) \div 2
                      /\ trace[i].sleep = 0

\* 401 to the chat shape and 503 to the fallback, three times at the first URL
C16_Witness ==
    /\ Len(trace) = 6
    /\ \A i \in DOMAIN trace :
          IF i % 2 = 1 THEN trace[i].answer = "other" ELSE FallbackRefused(i)
    /\ trace[6].answer = "retryable"
    /\ last_ans.chat.status_code = 401 /\ last_ans.inputs.status_code = 503
    /\ trace[1].url = 1 /\ url = 2 /\ attempt = 0 /\ cpc = "chat"

C18_CallTerminates ==
    /\ [](/\ attempt \in 0..2 /\ url \in 0..5
          /\ reqs <= 30
          /\ url >= 1 => reqs <= 2 * (3 * (url - 1) + attempt + 1)
          /\ cpc = "returned" =>
                (ret.ok \/ ret.text.v[1] = "Failed to contact model. Last error: "))
    /\ [][/\ url' >= url
          /\ (cpc \in {"chat", "inputs"} /\ cpc' = "chat") =>
                (url' > url \/ (url' = url /\ attempt' > attempt))
          /\ cpc = "returned" => cpc' = "returned"
         ]_vars
    /\ <>(cpc = "returned")

\* the longest call: 15 attempts of two requests each, then the failure
C18_Witness == Failed /\ reqs = 30 /\ url = 5 /\ attempt = 2

-----------------------------------------------------------------------------
\* The session store and /api/chat (src/app.py 31-46, 250-270, 287-319)
\*
\* sessions is the key set of the dict `sessions`; heap holds the session
\* dicts themselves, by id, so that a reference taken at line 299 keeps
\* naming its object. The time stamps (time.time()) are left out of the
\* messages; a session keeps the order of its creation as `created`.

MaxSessions == 2        \* uuids handed out
MaxRequests == 2        \* /api/chat requests begun

Threads == {"t1", "t2"}
SIDS == <<"s1", "s2", "s3", "s4">>

\* truthiness of a Python value, for `or` and `not`
Truthy(x) ==
    IF x.t = "NoneType" THEN FALSE
    ELSE IF x.t = "int" THEN x.v # 0
    ELSE PyLen(x) > 0
Or(a, b) == IF Truthy(a) THEN a ELSE b

\* lines 37-46
NewSession(sid, name) ==
    [id |-> sid,
     name |-> IF Truthy(name) THEN name
              ELSE PyStr(<<"Chat ", ToString(Cardinality(sessions) + 1)>>),
     created |-> created + 1,
     messages |-> <<>>]
create_session(sid, name) ==
    /\ sessions' = sessions \cup {sid}
    /\ heap' = (sid :> NewSession(sid, name)) @@ heap
    /\ created' = created + 1
    /\ served' = (sid :> 0) @@ served

NoLocals ==
    [pc |-> "idle", prompt |-> PyNone, session_id |-> "", session |-> "",
     messages_for_model |-> <<>>, ret |-> PyNone, resp |-> PyNone,
     name |-> PyNone]

\* JSON bodies of POST /api/chat that lines 290-293 accept. prompt and message
\* are any JSON scalar (no line checks their type); session_id is "" when the
\* field is absent, null or empty.
ChatPrompts == {PyNone, PyStr(<<"b", "a", "b">>), PyInt(5)}
ChatMessageFields == {PyNone, PyStr(<<"a">>)}
ChatBodies ==
    {[prompt |-> pr, message |-> me, session_id |-> sid] :
        pr \in ChatPrompts, me \in ChatMessageFields,
        sid \in {"", "unknown"} \cup {SIDS[i] : i \in 1..created}}

\* What call_model returns at line 308: success with a text (lines 185-211) or
\* failure with the text of line 230.
ChatDiag == PyStr(<<MODEL_URLS[Len(MODEL_URLS)], " returned 503: busy">>)
CallOutcomes ==
    {[ok |-> TRUE, text |-> PyStr(<<"h", "i">>)],
     [ok |-> FALSE, text |-> FailureText(ChatDiag)]}

AllIdle == \A t \in Threads : handler[t].pc = "idle"

Set(t, f) == handler' = [handler EXCEPT ![t] = f]

\* the observer's count: one more chat request answered on t's session
Answered(t) ==
    served' = IF handler[t].session \in DOMAIN served
              THEN [served EXCEPT ![handler[t].session] = @ + 1]
              ELSE served

\* lines 317-319
Fail500(t, e) ==
    /\ Set(t, [handler[t] EXCEPT !.pc = "idle", !.session = "",
                                 !.resp = [status |-> 500, error |-> e]])
    /\ Answered(t)

\* lines 290-293
ChatBegin(t) ==
    /\ AllIdle
    /\ nreq < MaxRequests
    /\ \E data \in ChatBodies :
        /\ created < MaxSessions \/ data.session_id \in sessions
        /\ Set(t, [NoLocals EXCEPT
                      !.pc = "check",
                      !.prompt = Or(data.prompt, Or(data.message, PyStr(<<>>))),
                      !.session_id = data.session_id])
    /\ nreq' = nreq + 1
    /\ UNCHANGED <<sessions, heap, created, served, limitVars, trimVars, callVars, extractVars>>

\* lines 295-297
ChatCheck(t) ==
    /\ handler[t].pc = "check"
    /\ IF handler[t].session_id = "" \/ handler[t].session_id \notin sessions
       THEN /\ created < MaxSessions
            /\ create_session(SIDS[created + 1], PyNone)
            /\ Set(t, [handler[t] EXCEPT !.pc = "lookup",
                                          !.session_id = SIDS[created + 1]])
       ELSE /\ Set(t, [handler[t] EXCEPT !.pc = "lookup"])
            /\ UNCHANGED <<sessions, heap, created, served>>
    /\ UNCHANGED <<nreq, limitVars, trimVars, callVars, extractVars>>

\* line 299
ChatLookup(t) ==
    /\ handler[t].pc = "lookup"
    /\ IF handler[t].session_id \in sessions
       THEN /\ Set(t, [handler[t] EXCEPT !.pc = "append_user",
                                         !.session = handler[t].session_id])
            /\ UNCHANGED served
       ELSE Fail500(t, "KeyError")
    /\ UNCHANGED <<sessions, heap, created, nreq, limitVars, trimVars, callVars, extractVars>>

AppendMessage(sid, m) ==
    heap' = [heap EXCEPT ![sid].messages = Append(@, m)]

\* line 302
ChatAppendUser(t) ==
    /\ handler[t].pc = "append_user"
    /\ AppendMessage(handler[t].session, [role |-> "user", content |-> handler[t].prompt])
    /\ Set(t, [handler[t] EXCEPT !.pc = "trim"])
    /\ UNCHANGED <<sessions, created, served, nreq, limitVars, trimVars, callVars, extractVars>>

\* trim_messages working on its argument: msgs bound to the list passed in,
\* the cuts and the pops made on it
argument_after_in_place(ms) ==
    IF ms = <<>> \/ trim_raises(ms) THEN ms ELSE trim_messages(ms)
\* The list passed to trim_messages as the call leaves it. Line 111 binds msgs
\* to a slice, a new list; line 120 rebinds it to a list of the new dicts of
\* line 118; line 126 pops from that list. No statement writes to `messages`
\* or to a dict in it.
argument_after(ms) == ms

\* lines 305-306. The list of line 305 is a new list of new dicts: the call of
\* line 306 is handed that list, not the stored one. `messages` is the list
\* handed over, as the call leaves it.
ChatTrim(t) ==
    /\ handler[t].pc = "trim"
    /\ LET stored == heap[handler[t].session].messages
           copy == [i \in DOMAIN stored |->
                       [role |-> stored[i].role, content |-> stored[i].content]]
       IN  /\ messages' = argument_after(copy)
           /\ IF trim_raises(copy)
              THEN Fail500(t, "TypeError")
              ELSE /\ Set(t, [handler[t] EXCEPT !.pc = "call",
                                                !.messages_for_model = trim_messages(copy)])
                   /\ UNCHANGED served
    /\ UNCHANGED <<sessions, heap, created, nreq, limitVars, tpc, msgs, msgs2,
                   callVars, extractVars>>

\* line 308
ChatCall(t) ==
    /\ handler[t].pc = "call"
    /\ \E out \in CallOutcomes :
          Set(t, [handler[t] EXCEPT !.pc = "reply", !.ret = out])
    /\ UNCHANGED <<sessions, heap, created, served, nreq, limitVars, trimVars, callVars, extractVars>>

\* line 310
ErrorMarker == "[Model error] "
AssistantText(out) ==
    IF out.ok THEN out.text ELSE PyStr(<<ErrorMarker>> \o out.text.v)

\* lines 310-315
ChatReply(t) ==
    /\ handler[t].pc = "reply"
    /\ LET assistant_text == AssistantText(handler[t].ret)
       IN  /\ AppendMessage(handler[t].session,
                            [role |-> "assistant", content |-> assistant_text])
           /\ Set(t, [handler[t] EXCEPT
                         !.pc = "idle", !.session = "",
                         !.resp = [status |-> 200,
                                   session_id |-> handler[t].session_id,
                                   response |-> assistant_text]])
    /\ Answered(t)
    /\ UNCHANGED <<sessions, created, nreq, limitVars, trimVars, callVars, extractVars>>

\* lines 250-255
api_sessions_create(t) ==
    /\ AllIdle
    /\ created < MaxSessions
    /\ \E name \in {PyNone, PyStr(<<"w", "o", "r", "k">>)} :
          create_session(SIDS[created + 1], name)
    /\ Set(t, [NoLocals EXCEPT !.resp = [status |-> 200, session |-> SIDS[created + 1]]])
    /\ UNCHANGED <<nreq, limitVars, trimVars, callVars, extractVars>>

\* A session dict lives while the store or a handler's `session` names it.
Referenced(sid) == \E t \in Threads : handler[t].session = sid
Without(f, sid) == [k \in DOMAIN f \ {sid} |-> f[k]]

\* lines 265-270
api_sessions_delete(t) ==
    /\ AllIdle
    /\ \E sid \in {"unknown"} \cup {SIDS[i] : i \in 1..created} :
          IF sid \in sessions
          THEN /\ sessions' = sessions \ {sid}
               /\ heap' = IF Referenced(sid) THEN heap ELSE Without(heap, sid)
               /\ served' = IF Referenced(sid) THEN served ELSE Without(served, sid)
               /\ Set(t, [NoLocals EXCEPT !.resp = [status |-> 200, deleted |-> TRUE]])
          ELSE /\ UNCHANGED <<sessions, heap, served>>
               /\ Set(t, [NoLocals EXCEPT !.resp = [status |-> 404, deleted |-> FALSE]])
    /\ UNCHANGED <<created, nreq, limitVars, trimVars, callVars, extractVars>>

ChatInit ==
    /\ MAX_MESSAGES = MaxCountLimit
    /\ MAX_MESSAGE_CHARS = MaxCharLimit
    /\ MAX_TOTAL_CHARS = MaxTotalLimit
    /\ TrimIdle /\ CallIdle /\ ExtractIdle
    /\ sessions = {} /\ heap = <<>> /\ created = 0
    /\ handler = [t \in Threads |-> NoLocals]
    /\ served = <<>> /\ nreq = 0

\* SpecChat hands every request to one worker: requests run one at a time.
Workers == {"t1"}

ChatNext ==
    \E t \in Workers :
        \/ ChatBegin(t) \/ ChatCheck(t) \/ ChatLookup(t) \/ ChatAppendUser(t)
        \/ ChatTrim(t) \/ ChatCall(t) \/ ChatReply(t)
        \/ api_sessions_create(t) \/ api_sessions_delete(t)

SpecChat == ChatInit /\ [][ChatNext]_vars

-----------------------------------------------------------------------------
\* Claims about /api/chat

History(sid) == heap[sid].messages

\* user, assistant, user, assistant, ... ending with an assistant message
Alternates(ms) ==
    /\ Len(ms) % 2 = 0
    /\ \A i \in DOMAIN ms : ms[i].role = IF i % 2 = 1 THEN "user" ELSE "assistant"

\* a step in which worker t finishes a chat request
ChatEnds(t) == handler[t].pc \notin {"idle", "check"} /\ handler'[t].pc = "idle"

\* C9: a chat request without a usable session_id creates exactly one session
\* and returns its id, which is in the store; one that names a stored session
\* creates none and appends its user message and its reply to that session;
\* so a session that answered n chat requests holds exactly 2n messages.
C9_SessionFlow ==
    /\ [][\A t \in Workers :
            /\ (handler[t].pc = "check" /\ handler'[t].pc # "check") =>
                  IF handler[t].session_id # "" /\ handler[t].session_id \in sessions
                  THEN /\ sessions' = sessions
                       /\ handler'[t].session_id = handler[t].session_id
                  ELSE /\ Cardinality(sessions') = Cardinality(sessions) + 1
                       /\ handler'[t].session_id \in sessions' \ sessions
            /\ ChatEnds(t) =>
                  /\ handler'[t].resp.status = 200
                  /\ handler'[t].resp.session_id = handler[t].session_id
                  /\ handler[t].session_id \in sessions'
                  /\ sessions' = sessions
         ]_vars
    /\ [](AllIdle => \A sid \in sessions : Len(History(sid)) = 2 * served[sid])

\* C10: on a failure of call_model the handler appends one assistant message,
\* the error marker followed by the diagnostic, and answers 200 with
\* {session_id, response}; so between requests every stored history
\* alternates user, assistant, from a user message to an assistant message.
C10_ErrorReplyKeepsHistoryWellFormed ==
    /\ [][\A t \in Workers :
            (handler[t].pc = "reply" /\ ~handler[t].ret.ok /\ handler'[t].pc # "reply") =>
                LET sid == handler[t].session
                    text == PyStr(<<"[Model error] ">> \o handler[t].ret.text.v)
                IN  /\ heap'[sid].messages = Append(heap[sid].messages,
                                              [role |-> "assistant", content |-> text])
                    /\ handler'[t].resp = [status |-> 200,
                                           session_id |-> handler[t].session_id,
                                           response |-> text]
         ]_vars
    /\ [](AllIdle => \A sid \in sessions : Alternates(History(sid)))

\* The same two statements for histories that hold text only: the case the
\* handler is written for.
TextOnly(sid) == \A i \in DOMAIN History(sid) : History(sid)[i].content.t = "str"
TextHistoryAlternates ==
    AllIdle => \A sid \in sessions : TextOnly(sid) => Alternates(History(sid))
TextHistoryCount ==
    AllIdle => \A sid \in sessions : TextOnly(sid) => Len(History(sid)) = 2 * served[sid]
\* a request answered 200 after call_model failed
ErrorReplyStored ==
    \E t \in Workers :
        /\ handler[t].pc = "idle"
        /\ "ok" \in DOMAIN handler[t].ret /\ ~handler[t].ret.ok
        /\ handler[t].resp.status = 200
        /\ handler[t].resp.response.v[1] = "[Model error] "

\* the role/content pairs of a stored history (line 305)
Outbound(ms) == [i \in DOMAIN ms |-> [role |-> ms[i].role, content |-> ms[i].content]]

-----------------------------------------------------------------------------
\* PATCH /api/sessions/<sid> (src/app.py 273-284)

\* str.strip(): leading and trailing whitespace removed
Whitespace == {" ", "\t", "\n"}
RECURSIVE lstrip(_)
lstrip(s) == IF s # <<>> /\ Head(s) \in Whitespace THEN lstrip(Tail(s)) ELSE s
RECURSIVE rstrip(_)
rstrip(s) ==
    IF s # <<>> /\ s[Len(s)] \in Whitespace
    THEN rstrip(SubSeq(s, 1, Len(s) - 1)) ELSE s
strip_kept(x) == x
strip(x) == PyStr(rstrip(lstrip(x.v)))

\* data.get("name", "") of line 279: the JSON value of the field, "" when the
\* field is absent
RenameNames ==
    {PyStr(<<>>), PyStr(<<" ">>), PyStr(<<"\t", " ">>),
     PyStr(<<" ", "x", " ">>), PyStr(<<"y", " ", "z">>), PyNone, PyInt(5)}

\* an exception no handler catches: Flask answers 500
Unhandled(t, e) ==
    Set(t, [handler[t] EXCEPT !.pc = "idle", !.session = "",
                              !.resp = [status |-> 500, error |-> e]])

\* lines 275-276
RenameRequest(t, names) ==
    /\ handler[t].pc = "idle"
    /\ \E sid \in {"unknown"} \cup {SIDS[i] : i \in 1..created}, data_name \in names :
          IF sid \notin sessions
          THEN Set(t, [NoLocals EXCEPT !.session_id = sid, !.name = data_name,
                                       !.resp = [status |-> 404, error |-> "not_found"]])
          ELSE Set(t, [NoLocals EXCEPT !.pc = "rename", !.session_id = sid,
                                       !.name = data_name])
    /\ UNCHANGED <<sessions, heap, created, served, nreq, limitVars, trimVars, callVars, extractVars>>

RenameCheck(t) == RenameRequest(t, RenameNames)

\* lines 278-284
RenameStore(t) ==
    /\ handler[t].pc = "rename"
    /\ LET sid == handler[t].session_id
           data_name == handler[t].name
       IN  IF ~IsStr(data_name)
           THEN /\ Unhandled(t, "AttributeError")
                /\ UNCHANGED heap
           ELSE LET name == strip(data_name)
                IN  IF ~Truthy(name)
                    THEN /\ Set(t, [handler[t] EXCEPT
                                       !.pc = "idle",
                                       !.resp = [status |-> 400, error |-> "empty_name"]])
                         /\ UNCHANGED heap
                    ELSE IF sid \notin sessions
                    THEN /\ Unhandled(t, "KeyError")
                         /\ UNCHANGED heap
                    ELSE /\ heap' = [heap EXCEPT ![sid].name = name]
                         /\ Set(t, [handler[t] EXCEPT
                                       !.pc = "idle",
                                       !.resp = [status |-> 200, renamed |-> TRUE,
                                                 session |-> [id |-> sid, name |-> name]]])
    /\ UNCHANGED <<sessions, created, served, nreq, limitVars, trimVars, callVars, extractVars>>

\* SpecSessions: the session routes without /api/chat, one request at a time.
SessionsNext ==
    \E t \in Workers :
        \/ AllIdle /\ api_sessions_create(t)
        \/ AllIdle /\ api_sessions_delete(t)
        \/ AllIdle /\ RenameCheck(t)
        \/ RenameStore(t)

SpecSessions == ChatInit /\ [][SessionsNext]_vars

\* the text between the first and the last character that is no whitespace
Blank(s) == \A i \in DOMAIN s : s[i] \in Whitespace
Inner(s) ==
    LET solid == {i \in DOMAIN s : s[i] \notin Whitespace}
        lo == CHOOSE i \in solid : \A j \in solid : i <= j
        hi == CHOOSE i \in solid : \A j \in solid : i >= j
    IN  SubSeq(s, lo, hi)

\* C11: renaming a stored session to an empty or all-whitespace name answers
\* 400 'empty_name' and changes no session; a name with a character that is
\* no whitespace replaces the stored name by its stripped form and changes
\* nothing else.
C11_RenameValidatesName ==
    [][\A t \in Workers :
          (handler[t].pc = "rename" /\ handler'[t].pc = "idle" /\ IsStr(handler[t].name)) =>
              LET sid == handler[t].session_id
                  given == handler[t].name.v
              IN  IF Blank(given)
                  THEN /\ handler'[t].resp = [status |-> 400, error |-> "empty_name"]
                       /\ heap' = heap /\ sessions' = sessions
                  ELSE /\ handler'[t].resp.status = 200
                       /\ heap' = [heap EXCEPT ![sid].name = PyStr(Inner(given))]
                       /\ sessions' = sessions
      ]_vars

\* a session renamed to the stripped "x", then a blank name rejected on it
C11_Witness ==
    \E t \in Workers :
        /\ handler[t].pc = "idle"
        /\ handler[t].resp = [status |-> 400, error |-> "empty_name"]
        /\ handler[t].name = PyStr(<<"\t", " ">>)
        /\ handler[t].session_id \in sessions
        /\ heap[handler[t].session_id].name = PyStr(<<"x">>)

-----------------------------------------------------------------------------
\* Concurrent requests. The development server of line 391 handles each
\* request on a thread of its own, and no lock guards `sessions`: a thread
\* may be rescheduled between any two statements of a handler, and always
\* while it waits for the model at line 308. Every handler is therefore a
\* sequence of steps, one per access to the shared store.

\* POST /api/chat bodies with a text prompt
ConcBodies ==
    {[prompt |-> PyStr(<<"b", "a", "b">>), message |-> PyNone, session_id |-> sid] :
        sid \in {""} \cup {SIDS[i] : i \in 1..created}}

\* lines 290-293, on a thread of its own
ChatAccept(t) ==
    /\ handler[t].pc = "idle"
    /\ nreq < MaxRequests
    /\ \E data \in ConcBodies :
        /\ created < MaxSessions \/ data.session_id \in sessions
        /\ Set(t, [NoLocals EXCEPT
                      !.pc = "check",
                      !.prompt = Or(data.prompt, Or(data.message, PyStr(<<>>))),
                      !.session_id = data.session_id])
    /\ nreq' = nreq + 1
    /\ UNCHANGED <<sessions, heap, created, served, limitVars, trimVars, callVars, extractVars>>

\* lines 375-377 and 380
ClearCheck(t) ==
    /\ handler[t].pc = "idle"
    /\ \E sid \in {""} \cup {SIDS[i] : i \in 1..created} :
          IF sid # "" /\ sid \in sessions
          THEN Set(t, [NoLocals EXCEPT !.pc = "clear", !.session_id = sid])
          ELSE Set(t, [NoLocals EXCEPT !.session_id = sid,
                                       !.resp = [status |-> 404, cleared |-> FALSE]])
    /\ UNCHANGED <<sessions, heap, created, served, nreq, limitVars, trimVars, callVars, extractVars>>

\* lines 378-379: the session found in the store gets a new, empty list
ClearAssign(t) ==
    /\ handler[t].pc = "clear"
    /\ IF handler[t].session_id \in sessions
       THEN /\ heap' = [heap EXCEPT ![handler[t].session_id].messages = <<>>]
            /\ Set(t, [handler[t] EXCEPT !.pc = "idle",
                                         !.resp = [status |-> 200, cleared |-> TRUE]])
       ELSE /\ Unhandled(t, "KeyError")
            /\ UNCHANGED heap
    /\ UNCHANGED <<sessions, created, served, nreq, limitVars, trimVars, callVars, extractVars>>

\* lines 267 and 270
DeleteCheck(t) ==
    /\ handler[t].pc = "idle"
    /\ \E sid \in {SIDS[i] : i \in 1..created} :
          IF sid \in sessions
          THEN Set(t, [NoLocals EXCEPT !.pc = "delete", !.session_id = sid])
          ELSE Set(t, [NoLocals EXCEPT !.session_id = sid,
                                       !.resp = [status |-> 404, deleted |-> FALSE]])
    /\ UNCHANGED <<sessions, heap, created, served, nreq, limitVars, trimVars, callVars, extractVars>>

\* lines 268-269: the key leaves the store; the session object lives on while
\* a handler holds it
DeleteDel(t) ==
    /\ handler[t].pc = "delete"
    /\ LET sid == handler[t].session_id
       IN  IF sid \in sessions
           THEN /\ sessions' = sessions \ {sid}
                /\ heap' = IF Referenced(sid) THEN heap ELSE Without(heap, sid)
                /\ served' = IF Referenced(sid) THEN served ELSE Without(served, sid)
                /\ Set(t, [handler[t] EXCEPT !.pc = "idle",
                                             !.resp = [status |-> 200, deleted |-> TRUE]])
           ELSE /\ Unhandled(t, "KeyError")
                /\ UNCHANGED <<sessions, heap, served>>
    /\ UNCHANGED <<created, nreq, limitVars, trimVars, callVars, extractVars>>

\* a rename to one name with blanks around it
ConcRenameCheck(t) == RenameRequest(t, {PyStr(<<" ", "x", " ">>)})

ConcNext ==
    \E t \in Threads :
        \/ ChatAccept(t) \/ ChatCheck(t) \/ ChatLookup(t) \/ ChatAppendUser(t)
        \/ ChatTrim(t) \/ ChatCall(t) \/ ChatReply(t)
        \/ ClearCheck(t) \/ ClearAssign(t)
        \/ DeleteCheck(t) \/ DeleteDel(t)
        \/ ConcRenameCheck(t) \/ RenameStore(t)

SpecConc == ChatInit /\ [][ConcNext]_vars

\* a handler ends with the 500 of a failed lookup
LookupFailed(t) ==
    /\ handler[t].pc # "idle" /\ handler'[t].pc = "idle"
    /\ handler'[t].resp.status = 500
    /\ handler'[t].resp.error = "KeyError"

\* C12: in every interleaving a handler's check of a session id and its
\* following lookup or mutation see the same session: no lookup fails after
\* the check passed, and no message is appended to a session object that is
\* no longer in the store.
C12_MutationsAtomic ==
    [][/\ \A t \in Threads : ~LookupFailed(t)
       /\ \A sid \in DOMAIN heap \cap DOMAIN heap' :
             Len(heap'[sid].messages) > Len(heap[sid].messages) => sid \in sessions
      ]_vars

\* The two halves apart. lookup after check: a delete between lines 295 and 299
C12_NoFailedLookup == [][\A t \in Threads : ~LookupFailed(t)]_vars
\* append after delete: a delete while the handler waits at line 308
C12_NoAppendToDeleted ==
    [][\A sid \in DOMAIN heap \cap DOMAIN heap' :
          Len(heap'[sid].messages) > Len(heap[sid].messages) => sid \in sessions]_vars

\* C20: in every interleaving of chat, clear and delete requests on one
\* session id the stored history stays well-formed: every assistant message
\* comes right after a user message, its prompt, and no two user messages
\* stand in a row.
C20_ConcurrentHistoryWellFormed ==
    \A sid \in sessions :
        \A i \in DOMAIN History(sid) :
            IF History(sid)[i].role = "assistant"
            THEN i > 1 /\ History(sid)[i - 1].role = "user"
            ELSE i > 1 => History(sid)[i - 1].role = "assistant"

\* The two halves apart. A clear while a chat request waits for the model
\* leaves the reply without its prompt.
C20_ReplyFollowsPrompt ==
    \A sid \in sessions :
        \A i \in DOMAIN History(sid) :
            History(sid)[i].role = "assistant" =>
                (i > 1 /\ History(sid)[i - 1].role = "user")
\* Two chat requests on one session at a time store their prompts in a row.
C20_NoTwoPrompts ==
    \A sid \in sessions :
        \A i \in DOMAIN History(sid) :
            (History(sid)[i].role = "user" /\ i > 1) =>
                History(sid)[i - 1].role = "assistant"

-----------------------------------------------------------------------------
\* SpecExtract: extract_text_from_model_response applied to JSON values.

\* a dict from optional fields: each argument is a set of one-field dicts,
\* the empty one standing for an absent field
Absent == <<>>
Field(key, values) == {Absent} \cup {key :> v : v \in values}

\* message.content and delta.content as a server may send them
Contents == {PyStr(<<"h", "i">>), PyNone, PyInt(5)}

\* choices[0]
Choices0 ==
    {PyStr(<<"x">>), PyInt(5), PyNone}
    \cup {PyDict(m @@ tx @@ d) :
            m \in Field("message", {PyDict("content" :> c) : c \in Contents}
                                      \cup {PyDict(Absent), PyStr(<<"m">>)}),
            tx \in Field("text", {PyStr(<<"t">>), PyInt(5)}),
            d \in Field("delta", {PyDict("content" :> PyStr(<<"d">>)), PyDict(Absent)})}

\* data[0]
Data0 ==
    {PyStr(<<"t", "e", "x", "t">>), PyStr(<<"y">>), PyInt(5),
     PyList(<<PyStr(<<"c", "o", "n", "t", "e", "n", "t">>)>>)}
    \cup {PyDict(tx @@ c) :
            tx \in Field("text", {PyStr(<<"d", "t">>), PyInt(5)}),
            c \in Field("content", {PyStr(<<"d", "c">>)})}

Responses ==
    {PyNone, PyInt(5), PyStr(<<"o", "k">>), PyList(<<PyStr(<<"o", "k">>)>>)}
    \cup {PyDict(ch @@ tx @@ rs @@ da) :
            ch \in Field("choices", {PyList(<<>>), PyStr(<<"x">>)}
                                       \cup {PyList(<<c>>) : c \in Choices0}),
            tx \in Field("text", {PyStr(<<"t", "o", "p">>), PyInt(5)}),
            rs \in Field("response", {PyStr(<<"r">>)}),
            da \in Field("data", {PyList(<<>>)} \cup {PyList(<<d>>) : d \in Data0})}

ExtractInit ==
    /\ MAX_MESSAGES = MaxCountLimit
    /\ MAX_MESSAGE_CHARS = MaxCharLimit
    /\ MAX_TOTAL_CHARS = MaxTotalLimit
    /\ TrimIdle /\ CallIdle /\ ChatIdle
    /\ epc = "input" /\ arg_json \in Responses /\ out_text = PyNone

Extract ==
    /\ epc = "input"
    /\ out_text' = extract_text_from_model_response(arg_json)
    /\ epc' = "done"
    /\ UNCHANGED <<arg_json, limitVars, trimVars, callVars, chatVars>>

SpecExtract == ExtractInit /\ [][Extract]_vars

-----------------------------------------------------------------------------
\* Claims about the normalizer

\* The reference chain, with an absent value as the empty sequence and a found
\* one as a sequence of one element.
At(x, key) == IF IsDict(x) /\ Has(x, key) THEN <<x.v[key]>> ELSE <<>>
First(xs) == IF xs # <<>> /\ IsList(xs[1]) /\ Len(xs[1].v) > 0 THEN <<xs[1].v[1]>> ELSE <<>>
In(xs, key) == IF xs = <<>> THEN <<>> ELSE At(xs[1], key)
OnlyStr(xs) == IF xs # <<>> /\ IsStr(xs[1]) THEN xs ELSE <<>>
OnlyDict(xs) == IF xs # <<>> /\ IsDict(xs[1]) THEN xs ELSE <<>>
Else(xs, ys) == IF xs # <<>> THEN xs ELSE ys

RefChoices(resp) ==
    LET choice == First(At(resp, "choices"))
    IN  Else(In(OnlyDict(In(choice, "message")), "content"),
        Else(OnlyStr(In(choice, "text")),
             In(OnlyDict(In(choice, "delta")), "content")))
RefTop(resp) ==
    Else(OnlyStr(At(resp, "text")),
    Else(OnlyStr(At(resp, "result")),
    Else(OnlyStr(At(resp, "output_text")),
         OnlyStr(At(resp, "response")))))
RefData(resp) ==
    LET d0 == First(At(resp, "data"))
    IN  Else(OnlyStr(In(d0, "text")), OnlyStr(In(d0, "content")))
RefLater(resp) == Else(RefTop(resp), Else(RefData(resp), <<str(resp)>>))
Reference(resp) == Else(RefChoices(resp), RefLater(resp))[1]

Extracted == epc = "done"

\* C13: the result is that of the chain choices[0] (message.content, text,
\* delta.content), then the first top-level string of text, result,
\* output_text, response, then data[0] (text, content), then the stringified
\* response; the first match wins.
C13_PriorityOrder == Extracted => out_text = Reference(arg_json)

\* inspecting choices[0] raises: it is no object
ChoicesRaise(resp) == IsDict(resp) /\ First(At(resp, "choices")) # <<>>
                          /\ ~IsDict(First(At(resp, "choices"))[1])

\* The chain is the code's wherever the choices block does not raise.
PriorityOrderWithoutRaise ==
    (Extracted /\ ~ChoicesRaise(arg_json)) => out_text = Reference(arg_json)
\* both a matching choices entry and a top-level text: the choices text wins
ChoicesBeatTopLevel ==
    /\ Extracted
    /\ RefChoices(arg_json) # <<>> /\ RefTop(arg_json) # <<>>
    /\ RefChoices(arg_json) # RefTop(arg_json)
    /\ out_text = RefChoices(arg_json)[1]

\* C14: for every JSON value the normalizer returns, and returns a text.
C14_AlwaysText == Extracted => IsStr(out_text)

\* C15: when inspecting choices[0] raises, the later steps are still
\* evaluated and their match is returned; the stringified response only when
\* none of them matches.
C15_RaiseFallsThrough ==
    (Extracted /\ ChoicesRaise(arg_json)) => out_text = RefLater(arg_json)[1]

====
